---- MODULE Spec2Model ----
(***************************************************************************)
(* The AI service of the job portal backend                                *)
(* (internal/services/ai_service.go): the retrying provider call callGenAI *)
(* and the tolerant parsers parseStringArray and parseScore behind         *)
(* ExtractSkillsFromText and ComputeMatchScore.                            *)
(*                                                                         *)
(* Texts are sequences of one-character strings.  Two symbols stand for a  *)
(* run of letters that only ever occurs as a whole in the texts drawn      *)
(* here: "m" is the run match_score and "n" is the run null.  "a" is any   *)
(* other letter.  Indices follow Go: 0-based, -1 for "not found".          *)
(***************************************************************************)
EXTENDS Integers, Sequences, FiniteSets, TLC

DQ == "\""
SQ == "'"
Digits == {"0", "1", "2", "9"}
JSONSpace == {" ", "\t"}

----------------------------------------------------------------------------
(* strings, strconv, regexp *)

At(s, i) == IF i >= 0 /\ i < Len(s) THEN s[i + 1] ELSE ""

RECURSIVE IndexFrom(_, _, _)
IndexFrom(s, c, i) ==
  IF i >= Len(s) THEN -1
  ELSE IF s[i + 1] = c THEN i
  ELSE IndexFrom(s, c, i + 1)

Index(s, c) == IndexFrom(s, c, 0)

RECURSIVE LastIndexFrom(_, _, _)
LastIndexFrom(s, c, i) ==
  IF i < 0 THEN -1
  ELSE IF s[i + 1] = c THEN i
  ELSE LastIndexFrom(s, c, i - 1)

LastIndex(s, c) == LastIndexFrom(s, c, Len(s) - 1)

Slice(s, from, to) == SubSeq(s, from + 1, to)

IsSpace(c) == c \in JSONSpace

RECURSIVE TrimLeft(_)
TrimLeft(s) ==
  IF s # << >> /\ IsSpace(Head(s)) THEN TrimLeft(Tail(s)) ELSE s

RECURSIVE TrimRight(_)
TrimRight(s) ==
  IF s # << >> /\ IsSpace(s[Len(s)])
  THEN TrimRight(SubSeq(s, 1, Len(s) - 1))
  ELSE s

TrimSpace(s) == TrimRight(TrimLeft(s))

\* Only the first occurrence replaced.
ReplaceAll_First(s, old, new) ==
  [i \in 1..Len(s) |-> IF i = Index(s, old) + 1 THEN new ELSE s[i]]

ReplaceAll(s, old, new) ==
  [i \in 1..Len(s) |-> IF s[i] = old THEN new ELSE s[i]]

DigitVal(c) ==
  CASE c = "0" -> 0
    [] c = "1" -> 1
    [] c = "2" -> 2
    [] c = "9" -> 9

RECURSIVE DecVal(_)
DecVal(ds) ==
  IF ds = << >> THEN 0
  ELSE DecVal(SubSeq(ds, 1, Len(ds) - 1)) * 10 + DigitVal(ds[Len(ds)])

AllDigits(ds) == \A i \in 1..Len(ds) : ds[i] \in Digits

\* strconv.Atoi: an optional sign, then one or more decimal digits.
AtoiDigits(neg, ds) ==
  IF ds = << >> \/ ~AllDigits(ds) THEN [ok |-> FALSE, n |-> 0]
  ELSE [ok |-> TRUE, n |-> IF neg THEN 0 - DecVal(ds) ELSE DecVal(ds)]

Atoi(t) ==
  IF t # << >> /\ Head(t) \in {"+", "-"}
  THEN AtoiDigits(Head(t) = "-", Tail(t))
  ELSE AtoiDigits(FALSE, t)

\* The end (exclusive) of the digit run that starts at i, at most max digits.
RECURSIVE DigitRunEnd(_, _, _)
DigitRunEnd(s, i, max) ==
  IF max = 0 \/ At(s, i) \notin Digits THEN i
  ELSE DigitRunEnd(s, i + 1, max - 1)

RECURSIVE FirstDigitFrom(_, _)
FirstDigitFrom(s, i) ==
  IF i >= Len(s) THEN -1
  ELSE IF s[i + 1] \in Digits THEN i
  ELSE FirstDigitFrom(s, i + 1)

\* A match that takes the whole run of digits: \d+.
DigitsAt_WholeRun(s, i) ==
  IF i = -1 THEN << >> ELSE Slice(s, i, DigitRunEnd(s, i, Len(s)))

\* regexp \d{1,3}, FindString: the leftmost match, as long as it can be.
DigitsAt(s, i) == IF i = -1 THEN << >> ELSE Slice(s, i, DigitRunEnd(s, i, 3))

FindDigits(s) == DigitsAt(s, FirstDigitFrom(s, 0))

IntOfMatch(m) == IF m = << >> THEN [ok |-> FALSE, n |-> 0] ELSE Atoi(m)

\* The same scan anchored at the start of the text: ^\d{1,3}.
extractFirstInt_Anchored(s) ==
  IntOfMatch(DigitsAt(s, IF At(s, 0) \in Digits THEN 0 ELSE -1))

extractFirstInt(s) == IntOfMatch(FindDigits(s))

\* The clamp without its lower bound.
clampScore_NoLower(n) == IF n > 100 THEN 100 ELSE n

\* A clamp that forgets the upper bound.
clampScore_NoUpper(n) == IF n < 0 THEN 0 ELSE n

clampScore(n) ==
  IF n < 0 THEN 0
  ELSE IF n > 100 THEN 100
  ELSE n

----------------------------------------------------------------------------
(* firstJSONFragment *)

\* The fragment cut at the first closing bracket instead of the last.
firstJSONFragment_FirstClose(s) ==
  LET idxObj == Index(s, "{")
      idxArr == Index(s, "[")
  IN IF idxObj = -1 /\ idxArr = -1
     THEN [text |-> << >>, err |-> "no json found"]
     ELSE IF idxObj # -1 /\ (idxArr = -1 \/ idxObj < idxArr)
     THEN LET last == Index(s, "}")
          IN IF last = -1 \/ last <= idxObj
             THEN [text |-> << >>, err |-> "malformed json object"]
             ELSE [text |-> Slice(s, idxObj, last + 1), err |-> ""]
     ELSE LET last == Index(s, "]")
          IN IF last = -1 \/ last <= idxArr
             THEN [text |-> << >>, err |-> "malformed json array"]
             ELSE [text |-> Slice(s, idxArr, last + 1), err |-> ""]

firstJSONFragment(s) ==
  LET idxObj == Index(s, "{")
      idxArr == Index(s, "[")
  IN IF idxObj = -1 /\ idxArr = -1
     THEN [text |-> << >>, err |-> "no json found"]
     ELSE IF idxObj # -1 /\ (idxArr = -1 \/ idxObj < idxArr)
     THEN LET last == LastIndex(s, "}")
          IN IF last = -1 \/ last <= idxObj
             THEN [text |-> << >>, err |-> "malformed json object"]
             ELSE [text |-> Slice(s, idxObj, last + 1), err |-> ""]
     ELSE LET last == LastIndex(s, "]")
          IN IF last = -1 \/ last <= idxArr
             THEN [text |-> << >>, err |-> "malformed json array"]
             ELSE [text |-> Slice(s, idxArr, last + 1), err |-> ""]

----------------------------------------------------------------------------
(* encoding/json: the decoder, for the texts over this alphabet.  A value  *)
(* is [t, n, s, keys, kids]: t its kind, n a number truncated toward zero  *)
(* (what int(float64) gives), s a string's characters, keys and kids an    *)
(* object's member names and values (kids alone: an array's elements).     *)

JNull == [t |-> "null", n |-> 0, s |-> << >>, keys |-> << >>, kids |-> << >>]
JNum(k) == [t |-> "num", n |-> k, s |-> << >>, keys |-> << >>, kids |-> << >>]
JStr(cs) == [t |-> "str", n |-> 0, s |-> cs, keys |-> << >>, kids |-> << >>]
JArr(vs) == [t |-> "arr", n |-> 0, s |-> << >>, keys |-> << >>, kids |-> vs]
JObj(ks, vs) == [t |-> "obj", n |-> 0, s |-> << >>, keys |-> ks, kids |-> vs]

ParseFail == [ok |-> FALSE, pos |-> 0, v |-> JNull]
ParseOk(p, val) == [ok |-> TRUE, pos |-> p, v |-> val]

RECURSIVE SkipSpace(_, _)
SkipSpace(s, i) == IF At(s, i) \in JSONSpace THEN SkipSpace(s, i + 1) ELSE i

\* A string literal that opens at i and closes at close: no escapes occur in
\* this alphabet; a raw control character (the tab) is not allowed inside it.
StringTo(s, i, close) ==
  IF At(s, i) # DQ \/ close = -1 THEN ParseFail
  ELSE IF \E k \in (i + 1)..(close - 1) : At(s, k) = "\t" THEN ParseFail
  ELSE ParseOk(close + 1, JStr(Slice(s, i + 1, close)))

ParseString(s, i) == StringTo(s, i, IndexFrom(s, DQ, i + 1))

\* A number read to the nearest integer, halves away from zero.
NumberParts_Rounded(s, neg, j, intEnd, fracEnd) ==
  IF intEnd = j THEN ParseFail
  ELSE IF At(s, intEnd) = "." /\ fracEnd = intEnd + 1 THEN ParseFail
  ELSE ParseOk(IF At(s, intEnd) = "." THEN fracEnd ELSE intEnd,
               JNum((IF neg THEN 0 - 1 ELSE 1)
                    * (DecVal(Slice(s, j, intEnd))
                       + (IF At(s, intEnd) = "." /\ At(s, intEnd + 1) = "9"
                          THEN 1 ELSE 0))))

\* -? (0 | [1-9][0-9]*) (. [0-9]+)?   (no exponent letter in this alphabet)
\* The value kept is int(t) of line 189: the fraction is dropped.
NumberParts(s, neg, j, intEnd, fracEnd) ==
  IF intEnd = j THEN ParseFail
  ELSE IF At(s, intEnd) = "." /\ fracEnd = intEnd + 1 THEN ParseFail
  ELSE ParseOk(IF At(s, intEnd) = "." THEN fracEnd ELSE intEnd,
               JNum(IF neg THEN 0 - DecVal(Slice(s, j, intEnd))
                    ELSE DecVal(Slice(s, j, intEnd))))

NumberFrom(s, neg, j, intEnd) ==
  NumberParts(s, neg, j, intEnd, DigitRunEnd(s, intEnd + 1, Len(s)))

UnsignedFrom(s, neg, j) ==
  NumberFrom(s, neg, j, IF At(s, j) = "0" THEN j + 1 ELSE DigitRunEnd(s, j, Len(s)))

ParseNumber(s, i) ==
  IF At(s, i) = "-" THEN UnsignedFrom(s, TRUE, i + 1) ELSE UnsignedFrom(s, FALSE, i)

RECURSIVE ParseValue(_, _)
RECURSIVE ParseMembers(_, _, _, _)
RECURSIVE ParseElems(_, _, _)

\* After a member's value: a comma and the next member, or the closing brace.
MembersNext(s, keys, kids, e) ==
  IF At(s, e) = "," THEN ParseMembers(s, SkipSpace(s, e + 1), keys, kids)
  ELSE IF At(s, e) = "}" THEN ParseOk(e + 1, JObj(keys, kids))
  ELSE ParseFail

MembersAfterValue(s, keys, kids, val) ==
  IF ~val.ok THEN ParseFail
  ELSE MembersNext(s, keys, Append(kids, val.v), SkipSpace(s, val.pos))

MembersAfterKey(s, keys, kids, k, c) ==
  IF ~k.ok \/ At(s, c) # ":" THEN ParseFail
  ELSE MembersAfterValue(s, Append(keys, k.v.s), kids, ParseValue(s, SkipSpace(s, c + 1)))

MembersKey(s, keys, kids, k) ==
  MembersAfterKey(s, keys, kids, k, IF k.ok THEN SkipSpace(s, k.pos) ELSE 0)

ParseMembers(s, i, keys, kids) == MembersKey(s, keys, kids, ParseString(s, i))

\* After an element: a comma and the next element, or the closing bracket.
ElemsNext(s, kids, e) ==
  IF At(s, e) = "," THEN ParseElems(s, SkipSpace(s, e + 1), kids)
  ELSE IF At(s, e) = "]" THEN ParseOk(e + 1, JArr(kids))
  ELSE ParseFail

ElemsAfterValue(s, kids, val) ==
  IF ~val.ok THEN ParseFail
  ELSE ElemsNext(s, Append(kids, val.v), SkipSpace(s, val.pos))

ParseElems(s, i, kids) == ElemsAfterValue(s, kids, ParseValue(s, i))

ParseObject(s, j) ==
  IF At(s, j) = "}" THEN ParseOk(j + 1, JObj(<< >>, << >>))
  ELSE ParseMembers(s, j, << >>, << >>)

ParseArray(s, j) ==
  IF At(s, j) = "]" THEN ParseOk(j + 1, JArr(<< >>))
  ELSE ParseElems(s, j, << >>)

ValueOfKind(s, i, c) ==
  IF c = "{" THEN ParseObject(s, SkipSpace(s, i + 1))
  ELSE IF c = "[" THEN ParseArray(s, SkipSpace(s, i + 1))
  ELSE IF c = DQ THEN ParseString(s, i)
  ELSE IF c = "-" \/ c \in Digits THEN ParseNumber(s, i)
  ELSE IF c = "n" THEN ParseOk(i + 1, JNull)
  ELSE ParseFail

ParseValue(s, i) == ValueOfKind(s, i, At(s, i))

\* checkValid then decode: one value, spaces around it, nothing else.
DecodedWhole(s, r) ==
  IF r.ok /\ SkipSpace(s, r.pos) = Len(s) THEN r ELSE ParseFail

JSONDecode(s) == DecodedWhole(s, ParseValue(s, SkipSpace(s, 0)))

\* The place of the last member named k (a later duplicate overwrites), or 0.
RECURSIVE LastKey(_, _, _)
LastKey(keys, k, i) ==
  IF i = 0 THEN 0
  ELSE IF keys[i] = k THEN i
  ELSE LastKey(keys, k, i - 1)

\* json.Unmarshal(text, &m), m map[string]interface{}
MapOf(r) ==
  IF ~r.ok THEN [err |-> "json syntax", keys |-> << >>, kids |-> << >>]
  ELSE IF r.v.t = "obj" THEN [err |-> "", keys |-> r.v.keys, kids |-> r.v.kids]
  ELSE IF r.v.t = "null" THEN [err |-> "", keys |-> << >>, kids |-> << >>]
  ELSE [err |-> "json type", keys |-> << >>, kids |-> << >>]

UnmarshalMap(text) == MapOf(JSONDecode(text))

\* json.Unmarshal(text, &arr), arr []string, arr holding prior before the
\* call.  A text that is not valid JSON leaves arr alone.  A top-level null
\* makes arr nil.  An array is decoded element by element into arr's own
\* elements (fresh, empty ones past its length): a string is stored, a null
\* leaves the element as it is, anything else is the type error and leaves
\* the element as it is; the error is reported after the whole array.
OldElem(prior, i) == IF i <= Len(prior) THEN prior[i] ELSE << >>

ElemInto(kid, old) == IF kid.t = "str" THEN kid.s ELSE old

StringsOf(r, prior) ==
  IF ~r.ok THEN [err |-> "json syntax", arr |-> prior]
  ELSE IF r.v.t = "null" THEN [err |-> "", arr |-> << >>]
  ELSE IF r.v.t # "arr" THEN [err |-> "json type", arr |-> prior]
  ELSE [err |-> IF \E i \in 1..Len(r.v.kids) : r.v.kids[i].t \notin {"str", "null"}
                THEN "json type" ELSE "",
        arr |-> [i \in 1..Len(r.v.kids) |-> ElemInto(r.v.kids[i], OldElem(prior, i))]]

UnmarshalStrings(text, prior) == StringsOf(JSONDecode(text), prior)

----------------------------------------------------------------------------
(* parseStringArray, parseScore.  Besides what the code returns, a result   *)
(* records its path (the stage that produced it) and, for a score, raw: the *)
(* number before the clamp.                                                 *)

MatchScoreKey == <<"m">>

\* The list with every label put in lower case.
Skills_LowerCased(arr, path) ==
  [ok |-> TRUE,
   skills |-> [i \in 1..Len(arr) |->
                 [k \in 1..Len(arr[i]) |-> IF arr[i][k] = "A" THEN "a" ELSE arr[i][k]]],
   err |-> "", path |-> path]

Skills(arr, path) == [ok |-> TRUE, skills |-> arr, err |-> "", path |-> path]
\* A failure answered with the empty list.
SkillsErr_EmptyList(e, path) == [ok |-> TRUE, skills |-> << >>, err |-> "", path |-> path]

SkillsErr(e, path) == [ok |-> FALSE, skills |-> << >>, err |-> e, path |-> path]

\* lines 148-152: the whole trimmed output as a JSON array
WholeOutput(whole, err) ==
  IF whole.err = "" THEN Skills(whole.arr, "whole") ELSE SkillsErr(err, "whole")

\* lines 157-162: single quotes turned into double quotes
Repaired(clean, err) ==
  IF clean.err = "" THEN Skills(clean.arr, "repair") ELSE SkillsErr(err, "repair")

\* lines 155-164
StrictOrRepaired(arrText, strict) ==
  IF strict.err # ""
  THEN Repaired(UnmarshalStrings(ReplaceAll(arrText, SQ, DQ), strict.arr), strict.err)
  ELSE Skills(strict.arr, "strict")

ArrayFromFragment(s, fr) ==
  IF fr.err # "" THEN WholeOutput(UnmarshalStrings(s, << >>), fr.err)
  ELSE StrictOrRepaired(fr.text, UnmarshalStrings(fr.text, << >>))

ArrayFromTrimmed(s) == ArrayFromFragment(s, firstJSONFragment(s))

parseStringArray(out) == ArrayFromTrimmed(TrimSpace(out))

ScoreOf(raw, path) ==
  [ok |-> TRUE, score |-> clampScore(raw), err |-> "", path |-> path, raw |-> raw]

ScoreErr(e, path) ==
  [ok |-> FALSE, score |-> 0, err |-> e, path |-> path, raw |-> 0]

\* if n, err2 := extractFirstInt(..); err2 == nil { return clampScore(n), nil }
\* return 0, err
ScanOr(scan, e, path) ==
  IF scan.ok THEN ScoreOf(scan.n, path) ELSE ScoreErr(e, path)

\* The end of parseScore without its scan.
FinalFallback_NoScan(jsonText) == ScoreErr("could not parse match score", "scan_fragment")

\* lines 199-203
FinalFallback(jsonText) ==
  ScanOr(extractFirstInt(jsonText), "could not parse match score", "scan_fragment")

\* case string, lines 190-193
ScoreFromString(jsonText, n) ==
  IF n.ok THEN ScoreOf(n.n, "field_string") ELSE FinalFallback(jsonText)

\* The type switch without its string case.
ScoreFromField_NumberOnly(jsonText, v) ==
  IF v.t = "num" THEN ScoreOf(v.n, "field_number") ELSE FinalFallback(jsonText)

\* lines 186-197: the type switch on m["match_score"]
ScoreFromField(jsonText, v) ==
  IF v.t = "num" THEN ScoreOf(v.n, "field_number")
  ELSE IF v.t = "str" THEN ScoreFromString(jsonText, Atoi(v.s))
  ELSE FinalFallback(jsonText)

ScoreFromLookup(jsonText, m, at) ==
  IF at = 0 THEN FinalFallback(jsonText) ELSE ScoreFromField(jsonText, m.kids[at])

\* The digit scan consulted before the mapping is looked at.
ScoreFromMap_ScanFirst(jsonText, m) ==
  ScanOr(extractFirstInt(jsonText), "could not parse match score", "scan_fragment")

\* lines 178-184
ScoreFromMap(jsonText, m) ==
  IF m.err # "" THEN ScanOr(extractFirstInt(jsonText), m.err, "scan_unparsed")
  ELSE ScoreFromLookup(jsonText, m, LastKey(m.keys, MatchScoreKey, Len(m.keys)))

\* lines 169-176
ScoreFromFragment(s, fr) ==
  IF fr.err # "" THEN ScanOr(extractFirstInt(s), fr.err, "scan_response")
  ELSE ScoreFromMap(fr.text, UnmarshalMap(fr.text))

ScoreFromTrimmed(s) == ScoreFromFragment(s, firstJSONFragment(s))

parseScore(out) == ScoreFromTrimmed(TrimSpace(out))

----------------------------------------------------------------------------
(* The inputs and the provider's answers *)

MaxInputLen == 2
MaxLen == 4

RECURSIVE SeqsUpTo(_, _)
SeqsUpTo(A, n) ==
  IF n = 0 THEN {<< >>}
  ELSE LET P == SeqsUpTo(A, n - 1)
       IN P \cup {Append(q, c) : q \in {x \in P : Len(x) = n - 1}, c \in A}

\* The bio, or the job description.
Inputs == SeqsUpTo({" ", "\t", "a"}, MaxInputLen)

Quoted(q, cs) == <<q>> \o cs \o <<q>>

\* Every short text of brackets, a letter and a digit.
BracketTexts == SeqsUpTo({"{", "}", "[", "]", "a", "1"}, MaxLen)

NumTexts ==
  {<<"1", "2">>, <<"1", "2", "0">>, <<"-", "2">>, <<"1", ".", "9">>,
   <<"1", "2", "1", "2">>, <<"0">>, <<"0", "1">>, <<"9", "9">>, <<"1", "0", "0">>,
   <<"1", "0", "1">>, <<"9", "9", ".", "9">>, <<"-", "0", ".", "9">>,
   <<"-", "1", ".", "9">>, <<"1", "0", "0", ".", "2">>}

ValTexts ==
  NumTexts \cup {Quoted(DQ, x) : x \in NumTexts}
  \cup {Quoted(DQ, <<"a">>), Quoted(SQ, <<"1", "2">>), <<"n">>, <<"[", "1", "]">>,
        <<"{", "}">>, << >>, <<"a">>}

KeyTexts == {Quoted(DQ, <<"m">>), Quoted(DQ, <<"a">>), Quoted(SQ, <<"m">>)}

MemberTexts == {k \o <<":">> \o v : k \in KeyTexts, v \in ValTexts}

SecondMemberTexts ==
  {Quoted(DQ, <<"m">>) \o <<":", " ">> \o v :
     v \in {<<"2">>, Quoted(DQ, <<"a">>), Quoted(DQ, <<"2", "0", "0">>), <<"n">>}}
  \cup {Quoted(DQ, <<"a">>) \o <<":">> \o <<"2">>}

ObjectTexts ==
  {<<"{", "}">>}
  \cup {<<"{">> \o a \o <<"}">> : a \in MemberTexts}
  \cup {<<"{">> \o a \o <<",">> \o b \o <<"}">> : a \in MemberTexts, b \in SecondMemberTexts}

ElemTexts ==
  {Quoted(DQ, <<"a">>), Quoted(SQ, <<"a">>), Quoted(DQ, <<"m">>), <<"1">>, <<"n">>,
   Quoted(DQ, << >>), Quoted(DQ, <<"A">>)}

ArrayTexts ==
  {<<"[", "]">>}
  \cup {<<"[">> \o a \o <<"]">> : a \in ElemTexts}
  \cup {<<"[">> \o a \o <<",", " ">> \o b \o <<"]">> : a \in ElemTexts, b \in ElemTexts}
  \cup {<<"[">> \o a \o <<",">> \o b \o <<",">> \o c \o <<"]">> :
          a \in ElemTexts, b \in ElemTexts, c \in ElemTexts}

Prefixes == {<< >>, <<"a", " ">>, <<"9", " ">>, <<" ">>}
Suffixes == {<< >>, <<" ", "a">>, <<" ", "2">>, <<"}">>, <<"\t">>}

\* A payload with prose, digits, spaces or a stray bracket around it.
WrappedTexts ==
  {p \o x \o q : p \in Prefixes, x \in ObjectTexts \cup ArrayTexts, q \in Suffixes}

ProseTexts ==
  {<<"n">>, <<" ", "n", " ">>, <<"a", " ", "1", "2", "0", "1">>, <<"-", "2">>,
   <<"a", " ", "a">>, <<" ">>,
   <<"a", " ", "1", "2", " ", "a", " ", "1", "0", "0">>}

\* Arrays that are valid JSON before and after the single quotes are turned
\* into double quotes, with other elements:
\*   ["',", 1, ",'"]   and   ["a',null,'", "m", "',", 1, ",'"]
RequotedTexts ==
  {<<"[", DQ, SQ, ",", DQ, ",", " ", "1", ",", " ", DQ, ",", SQ, DQ, "]">>,
   <<"[", DQ, "a", SQ, ",", "n", ",", SQ, DQ, ",", " ", DQ, "m", DQ, ",", " ",
     DQ, SQ, ",", DQ, ",", " ", "1", ",", " ", DQ, ",", SQ, DQ, "]">>}

Responses == BracketTexts \cup WrappedTexts \cup ProseTexts \cup RequotedTexts

\* The answers drawn while the retry loop runs.
CallResponses ==
  {<< >>, <<"a">>, <<"1", "2", "0">>, <<"[", DQ, "a", DQ, "]">>,
   <<"{", DQ, "m", DQ, ":", "1", "2", "}">>, <<"a", "{", "}">>}

\* The provider's and the transport's errors.
ErrCodes == {"rate limited", "unavailable"}
CtxErr == "context canceled"
ClientErr == "client error"

----------------------------------------------------------------------------
(* One invocation of ExtractSkillsFromText or ComputeMatchScore *)

VARIABLES op, input, pc, clientCreated, attempt, backoff, nAttempts, waits,
          outcomes, cancelled, atCancel, retText, retErr, parsedText, frag,
          result

\* The HTTP request a handler serves and its response, the skills column of
\* the caller's row of users, and a second invocation running beside the
\* first.
VARIABLES req, resp, stored, peer

\* The tables users and jobs of migrations/database.sql, with the calls of
\* the services that write them.
VARIABLES db

hvars == <<req, resp, stored, peer, db>>

vars == <<op, input, pc, clientCreated, attempt, backoff, nAttempts, waits,
          outcomes, cancelled, atCancel, retText, retErr, parsedText, frag,
          result, hvars>>

maxRetries_Four == 3 + 1

maxRetries == 3

initialBackoff == 1

NextBackoff_Linear(b) == b + 1

NextBackoff(b) == b * 2

NoResult == [ok |-> FALSE, skills |-> << >>, score |-> 0, err |-> "", path |-> "", raw |-> 0]
Failure(e) == [ok |-> FALSE, skills |-> << >>, score |-> 0, err |-> e, path |-> "", raw |-> 0]
SkillsResult(r) ==
  [ok |-> r.ok, skills |-> r.skills, score |-> 0, err |-> r.err, path |-> r.path, raw |-> 0]
ScoreResult(r) ==
  [ok |-> r.ok, skills |-> << >>, score |-> r.score, err |-> r.err, path |-> r.path,
   raw |-> r.raw]
NoFrag == [text |-> << >>, err |-> ""]
NotParsed == <<"not parsed">>
NoReq == [handler |-> "none", auth |-> FALSE, bodyOk |-> FALSE, lookup |-> "none"]
NoResp ==
  [status |-> 0, body |-> "none", error |-> "", details |-> "", skills |-> << >>,
   score |-> 0]
NoPeer ==
  [op |-> "none", input |-> << >>, pc |-> "none", attempt |-> 0, backoff |-> 0,
   nAttempts |-> 0, waits |-> << >>, outcomes |-> << >>, retText |-> << >>,
   retErr |-> "", result |-> NoResult]

\* A direct call of the service: no handler, no second invocation.
NoDb == [users |-> {}, jobs |-> << >>]

\* A direct call of the service: no handler, no second invocation, no table.
NoCaller ==
  /\ req = NoReq
  /\ resp = NoResp
  /\ stored = << >>
  /\ peer = NoPeer
  /\ db = NoDb

NoCancel == [pc |-> "none", nAttempts |-> 0, nWaits |-> 0]

Init ==
  /\ op \in {"extract", "score"}
  /\ input \in Inputs
  /\ pc = "idle"
  /\ clientCreated = FALSE
  /\ attempt = 0
  /\ backoff = 0
  /\ nAttempts = 0
  /\ waits = << >>
  /\ outcomes = << >>
  /\ cancelled \in BOOLEAN
  /\ atCancel = NoCancel
  /\ retText = << >>
  /\ retErr = ""
  /\ parsedText = NotParsed
  /\ frag = NoFrag
  /\ result = NoResult
  /\ NoCaller

\* callGenAI up to its first GenerateContent: the client, the loop's
\* variables, the first attempt sent.
callGenAI ==
  \/ /\ pc' = "returned"
     /\ retErr' = ClientErr
     /\ UNCHANGED <<clientCreated, attempt, backoff, nAttempts>>
  \/ /\ clientCreated' = TRUE
     /\ attempt' = 0
     /\ backoff' = initialBackoff
     /\ nAttempts' = nAttempts + 1
     /\ pc' = "inflight"
     /\ retErr' = ""

\* The entry without the check of the bio.
ExtractSkillsFromText_Unchecked ==
  /\ pc = "idle"
  /\ op = "extract"
  /\ callGenAI
  /\ UNCHANGED <<hvars, op, input, waits, outcomes, cancelled, atCancel, retText,
                 parsedText, frag, result>>

ExtractSkillsFromText ==
  /\ pc = "idle"
  /\ op = "extract"
  /\ IF TrimSpace(input) = << >>
     THEN /\ pc' = "done"
          /\ result' = Failure("bio is empty")
          /\ UNCHANGED <<clientCreated, attempt, backoff, nAttempts, retErr>>
     ELSE /\ callGenAI
          /\ UNCHANGED result
  /\ UNCHANGED <<hvars, op, input, waits, outcomes, cancelled, atCancel, retText,
                 parsedText, frag>>

ComputeMatchScore ==
  /\ pc = "idle"
  /\ op = "score"
  /\ callGenAI
  /\ UNCHANGED <<hvars, op, input, waits, outcomes, cancelled, atCancel, retText,
                 parsedText, frag, result>>

\* A provider answer that is retried when its text is empty.
GenerateContentOk_RetryEmpty ==
  /\ pc = "inflight"
  /\ ~cancelled
  /\ \E text \in CallResponses :
       /\ outcomes' = Append(outcomes, [ok |-> TRUE, text |-> text, err |-> ""])
       /\ IF text = << >> /\ attempt # maxRetries
          THEN pc' = "sleeping" /\ UNCHANGED retText
          ELSE pc' = "returned" /\ retText' = text
  /\ UNCHANGED <<hvars, op, input, clientCreated, attempt, backoff, nAttempts, waits,
                 cancelled, atCancel, retErr, parsedText, frag, result>>

\* GenerateContent returns a response: callGenAI returns its text.
GenerateContentOk ==
  /\ pc = "inflight"
  /\ ~cancelled
  /\ \E text \in CallResponses :
       /\ outcomes' = Append(outcomes, [ok |-> TRUE, text |-> text, err |-> ""])
       /\ retText' = text
  /\ pc' = "returned"
  /\ UNCHANGED <<hvars, op, input, clientCreated, attempt, backoff, nAttempts, waits,
                 cancelled, atCancel, retErr, parsedText, frag, result>>

\* A failure after which callGenAI gives up with the first error it saw.
GenerateContentErr_FirstError ==
  /\ pc = "inflight"
  /\ \E e \in (IF cancelled THEN {CtxErr} ELSE ErrCodes) :
       /\ outcomes' = Append(outcomes, [ok |-> FALSE, text |-> << >>, err |-> e])
       /\ IF attempt = maxRetries
          THEN pc' = "returned" /\ retErr' = outcomes'[1].err
          ELSE pc' = "sleeping" /\ UNCHANGED retErr
  /\ UNCHANGED <<hvars, op, input, clientCreated, attempt, backoff, nAttempts, waits,
                 cancelled, atCancel, retText, parsedText, frag, result>>

\* GenerateContent returns an error: the last attempt's is returned, an
\* earlier one starts the sleep.  A cancelled context fails the request.
GenerateContentErr ==
  /\ pc = "inflight"
  /\ \E e \in (IF cancelled THEN {CtxErr} ELSE ErrCodes) :
       /\ outcomes' = Append(outcomes, [ok |-> FALSE, text |-> << >>, err |-> e])
       /\ IF attempt = maxRetries
          THEN pc' = "returned" /\ retErr' = e
          ELSE pc' = "sleeping" /\ UNCHANGED retErr
  /\ UNCHANGED <<hvars, op, input, clientCreated, attempt, backoff, nAttempts, waits,
                 cancelled, atCancel, retText, parsedText, frag, result>>

\* time.Sleep(backoff) returns; the loop doubles the backoff and sends the
\* next attempt.
SleepDone ==
  /\ pc = "sleeping"
  /\ waits' = Append(waits, backoff)
  /\ backoff' = NextBackoff(backoff)
  /\ attempt' = attempt + 1
  /\ nAttempts' = nAttempts + 1
  /\ pc' = "inflight"
  /\ UNCHANGED <<hvars, op, input, clientCreated, outcomes, cancelled, atCancel,
                 retText, retErr, parsedText, frag, result>>

\* The caller cancels ctx while the call waits for the provider or sleeps.
\* The handler ExtractSkills passes context.Background(), which nothing
\* cancels.
CancelCtx ==
  /\ ~cancelled
  /\ req.handler # "ExtractSkills"
  /\ pc \in {"inflight", "sleeping"}
  /\ cancelled' = TRUE
  /\ atCancel' = [pc |-> pc, nAttempts |-> nAttempts, nWaits |-> Len(waits)]
  /\ UNCHANGED <<hvars, op, input, pc, clientCreated, attempt, backoff, nAttempts,
                 waits, outcomes, retText, retErr, parsedText, frag, result>>

\* ExtractSkillsFromText after callGenAI: the error, or parseStringArray(out).
ReturnSkills ==
  /\ pc = "returned"
  /\ op = "extract"
  /\ pc' = "done"
  /\ IF retErr # ""
     THEN /\ result' = Failure(retErr)
          /\ UNCHANGED <<parsedText, frag>>
     ELSE /\ parsedText' = retText
          /\ frag' = firstJSONFragment(TrimSpace(retText))
          /\ result' = SkillsResult(parseStringArray(retText))
  /\ UNCHANGED <<hvars, op, input, clientCreated, attempt, backoff, nAttempts, waits,
                 outcomes, cancelled, atCancel, retText, retErr>>

\* ComputeMatchScore after callGenAI: the error, or parseScore(out).
ReturnScore ==
  /\ pc = "returned"
  /\ op = "score"
  /\ pc' = "done"
  /\ IF retErr # ""
     THEN /\ result' = Failure(retErr)
          /\ UNCHANGED <<parsedText, frag>>
     ELSE /\ parsedText' = retText
          /\ frag' = firstJSONFragment(TrimSpace(retText))
          /\ result' = ScoreResult(parseScore(retText))
  /\ UNCHANGED <<hvars, op, input, clientCreated, attempt, backoff, nAttempts, waits,
                 outcomes, cancelled, atCancel, retText, retErr>>

Next ==
  \/ ExtractSkillsFromText
  \/ ComputeMatchScore
  \/ GenerateContentOk
  \/ GenerateContentErr
  \/ SleepDone
  \/ CancelCtx
  \/ ReturnSkills
  \/ ReturnScore

Spec == Init /\ [][Next]_vars

\* The parsers on every answer: the state in which callGenAI has returned
\* the text of its first attempt.
InitParse ==
  /\ op \in {"extract", "score"}
  /\ input = <<"a">>
  /\ pc = "returned"
  /\ clientCreated = TRUE
  /\ attempt = 0
  /\ backoff = initialBackoff
  /\ nAttempts = 1
  /\ waits = << >>
  /\ retText \in Responses
  /\ outcomes = <<[ok |-> TRUE, text |-> retText, err |-> ""]>>
  /\ cancelled = FALSE
  /\ atCancel = NoCancel
  /\ retErr = ""
  /\ parsedText = NotParsed
  /\ frag = NoFrag
  /\ result = NoResult
  /\ NoCaller

NextParse ==
  \/ ReturnSkills
  \/ ReturnScore

SpecParse == InitParse /\ [][NextParse]_vars

----------------------------------------------------------------------------
(* The handlers ExtractSkills (POST /ai/extract-skills) and GetJob          *)
(* (GET /jobs/:id), each around one call of the service.  input is the bio  *)
(* of the request body, or the description of the job.                      *)

DbErr == "db error"

Lookups == {"no id", "job not found", "job error", "user error", "ok"}

Requests ==
  {[handler |-> "ExtractSkills", auth |-> a, bodyOk |-> b, lookup |-> "none"] :
     a \in BOOLEAN, b \in BOOLEAN}
  \cup {[handler |-> "GetJob", auth |-> TRUE, bodyOk |-> TRUE, lookup |-> l] :
          l \in Lookups}

\* The skills the row holds before the request.
StoredSkills == {<< >>, << <<"m">> >>}

ErrorBody(status, msg, details) ==
  [status |-> status, body |-> "error", error |-> msg, details |-> details,
   skills |-> << >>, score |-> 0]

SkillsBody(skills) ==
  [status |-> 200, body |-> "skills", error |-> "", details |-> "", skills |-> skills,
   score |-> 0]

JobBody(score) ==
  [status |-> 200, body |-> "job", error |-> "", details |-> "", skills |-> << >>,
   score |-> score]

InitHTTP ==
  /\ req \in Requests
  /\ op = IF req.handler = "ExtractSkills" THEN "extract" ELSE "score"
  /\ input \in Inputs
  /\ pc = "request"
  /\ clientCreated = FALSE
  /\ attempt = 0
  /\ backoff = 0
  /\ nAttempts = 0
  /\ waits = << >>
  /\ outcomes = << >>
  /\ cancelled \in (IF req.handler = "ExtractSkills" THEN {FALSE} ELSE BOOLEAN)
  /\ atCancel = NoCancel
  /\ retText = << >>
  /\ retErr = ""
  /\ parsedText = NotParsed
  /\ frag = NoFrag
  /\ result = NoResult
  /\ resp = NoResp
  /\ stored \in StoredSkills
  /\ peer = NoPeer
  /\ db = NoDb

\* ai_handler.go lines 16-30: the checks before the call of the service.
ExtractSkills ==
  /\ pc = "request"
  /\ req.handler = "ExtractSkills"
  /\ IF ~req.auth
     THEN pc' = "responded" /\ resp' = ErrorBody(401, "unauthorized", "")
     ELSE IF ~req.bodyOk
     THEN pc' = "responded" /\ resp' = ErrorBody(400, "invalid request", "")
     ELSE IF input = << >>
     THEN pc' = "responded" /\ resp' = ErrorBody(400, "bio is required", "")
     ELSE pc' = "idle" /\ UNCHANGED resp
  /\ UNCHANGED <<op, input, clientCreated, attempt, backoff, nAttempts, waits,
                 outcomes, cancelled, atCancel, retText, retErr, parsedText, frag,
                 result, req, stored, peer, db>>

\* A handler that writes what the service returned before it looks at the
\* error.
ExtractSkillsRespond_WriteFirst ==
  /\ pc = "done"
  /\ req.handler = "ExtractSkills"
  /\ pc' = "responded"
  /\ stored' = result.skills
  /\ resp' = IF ~result.ok THEN ErrorBody(500, "ai extraction failed", result.err)
             ELSE SkillsBody(result.skills)
  /\ UNCHANGED <<op, input, clientCreated, attempt, backoff, nAttempts, waits,
                 outcomes, cancelled, atCancel, retText, retErr, parsedText, frag,
                 result, req, peer, db>>

\* ai_handler.go lines 30-42: the error of the service, or UpdateUser with
\* the skills and then the error of the database or the skills.
ExtractSkillsRespond ==
  /\ pc = "done"
  /\ req.handler = "ExtractSkills"
  /\ pc' = "responded"
  /\ IF ~result.ok
     THEN /\ resp' = ErrorBody(500, "ai extraction failed", result.err)
          /\ UNCHANGED stored
     ELSE \/ /\ stored' = result.skills
             /\ resp' = SkillsBody(result.skills)
          \/ /\ resp' = ErrorBody(500, "failed to update user skills", DbErr)
             /\ UNCHANGED stored
  /\ UNCHANGED <<op, input, clientCreated, attempt, backoff, nAttempts, waits,
                 outcomes, cancelled, atCancel, retText, retErr, parsedText, frag,
                 result, req, peer, db>>

\* job_handler.go lines 65-90: the id, the job, the user, then the call.
GetJob ==
  /\ pc = "request"
  /\ req.handler = "GetJob"
  /\ IF req.lookup = "no id"
     THEN pc' = "responded" /\ resp' = ErrorBody(400, "id required", "")
     ELSE IF req.lookup = "job not found"
     THEN pc' = "responded" /\ resp' = ErrorBody(404, "job not found", "")
     ELSE IF req.lookup = "job error"
     THEN pc' = "responded" /\ resp' = ErrorBody(500, "failed to fetch job", "")
     ELSE IF req.lookup = "user error"
     THEN pc' = "responded" /\ resp' = ErrorBody(500, "failed to fetch user", "")
     ELSE pc' = "idle" /\ UNCHANGED resp
  /\ UNCHANGED <<op, input, clientCreated, attempt, backoff, nAttempts, waits,
                 outcomes, cancelled, atCancel, retText, retErr, parsedText, frag,
                 result, req, stored, peer, db>>

\* job_handler.go lines 90-99
GetJobRespond ==
  /\ pc = "done"
  /\ req.handler = "GetJob"
  /\ pc' = "responded"
  /\ resp' = IF ~result.ok THEN ErrorBody(500, "failed to compute match score", "")
             ELSE JobBody(result.score)
  /\ UNCHANGED <<op, input, clientCreated, attempt, backoff, nAttempts, waits,
                 outcomes, cancelled, atCancel, retText, retErr, parsedText, frag,
                 result, req, stored, peer, db>>

NextHTTP ==
  \/ ExtractSkills
  \/ GetJob
  \/ ExtractSkillsFromText
  \/ ComputeMatchScore
  \/ GenerateContentOk
  \/ GenerateContentErr
  \/ SleepDone
  \/ CancelCtx
  \/ ReturnSkills
  \/ ReturnScore
  \/ ExtractSkillsRespond
  \/ GetJobRespond

SpecHTTP == InitHTTP /\ [][NextHTTP]_vars

----------------------------------------------------------------------------
(* Two invocations side by side.  Everything callGenAI and the parsers use  *)
(* is local to the call (the client of line 111, maxRetries, backoff,       *)
(* attempt, the regexp of line 236): the second invocation has its own copy *)
(* of each, the fields of peer, and its steps interleave with the first's.  *)

mainvars == <<op, input, pc, clientCreated, attempt, backoff, nAttempts, waits,
              outcomes, cancelled, atCancel, retText, retErr, parsedText, frag,
              result, req, resp, stored, db>>

PairInputs == {<<"a">>, <<" ">>}

\* The answers the second invocation draws.
PeerResponses == {<<"1", "2", "0">>, <<"[", DQ, "a", DQ, "]">>}

InitPair ==
  /\ op \in {"extract", "score"}
  /\ input \in PairInputs
  /\ pc = "idle"
  /\ clientCreated = FALSE
  /\ attempt = 0
  /\ backoff = 0
  /\ nAttempts = 0
  /\ waits = << >>
  /\ outcomes = << >>
  /\ cancelled = FALSE
  /\ atCancel = NoCancel
  /\ retText = << >>
  /\ retErr = ""
  /\ parsedText = NotParsed
  /\ frag = NoFrag
  /\ result = NoResult
  /\ req = NoReq
  /\ resp = NoResp
  /\ stored = << >>
  /\ db = NoDb
  /\ \E o \in {"extract", "score"}, i \in PairInputs :
       peer = [NoPeer EXCEPT !.op = o, !.input = i, !.pc = "idle"]

\* ExtractSkillsFromText / ComputeMatchScore up to the first GenerateContent.
PeerEntry ==
  /\ peer.pc = "idle"
  /\ \/ /\ peer.op = "extract" /\ TrimSpace(peer.input) = << >>
        /\ peer' = [peer EXCEPT !.pc = "done", !.result = Failure("bio is empty")]
     \/ /\ ~(peer.op = "extract" /\ TrimSpace(peer.input) = << >>)
        /\ peer' = [peer EXCEPT !.pc = "returned", !.retErr = ClientErr]
     \/ /\ ~(peer.op = "extract" /\ TrimSpace(peer.input) = << >>)
        /\ peer' = [peer EXCEPT !.pc = "inflight", !.attempt = 0,
                                !.backoff = initialBackoff, !.nAttempts = @ + 1]
  /\ UNCHANGED mainvars

PeerGenerateContentOk ==
  /\ peer.pc = "inflight"
  /\ \E text \in PeerResponses :
       peer' = [peer EXCEPT !.outcomes = Append(@, [ok |-> TRUE, text |-> text, err |-> ""]),
                            !.retText = text, !.pc = "returned"]
  /\ UNCHANGED mainvars

PeerGenerateContentErr ==
  /\ peer.pc = "inflight"
  /\ \E e \in ErrCodes :
       peer' = [peer EXCEPT !.outcomes = Append(@, [ok |-> FALSE, text |-> << >>, err |-> e]),
                            !.pc = IF peer.attempt = maxRetries THEN "returned" ELSE "sleeping",
                            !.retErr = IF peer.attempt = maxRetries THEN e ELSE @]
  /\ UNCHANGED mainvars

\* The second invocation sleeping on the first one's backoff.
PeerSleepDone_SharedBackoff ==
  /\ peer.pc = "sleeping"
  /\ peer' = [peer EXCEPT !.waits = Append(@, backoff), !.attempt = @ + 1,
                          !.nAttempts = @ + 1, !.pc = "inflight"]
  /\ backoff' = NextBackoff(backoff)
  /\ UNCHANGED <<op, input, pc, clientCreated, attempt, nAttempts, waits, outcomes,
                 cancelled, atCancel, retText, retErr, parsedText, frag, result, req,
                 resp, stored, db>>

PeerSleepDone ==
  /\ peer.pc = "sleeping"
  /\ peer' = [peer EXCEPT !.waits = Append(@, peer.backoff),
                          !.backoff = NextBackoff(@), !.attempt = @ + 1,
                          !.nAttempts = @ + 1, !.pc = "inflight"]
  /\ UNCHANGED mainvars

ParsedResult(o, text) ==
  IF o = "extract" THEN SkillsResult(parseStringArray(text))
  ELSE ScoreResult(parseScore(text))

PeerReturn ==
  /\ peer.pc = "returned"
  /\ peer' = [peer EXCEPT !.pc = "done",
                          !.result = IF peer.retErr # "" THEN Failure(peer.retErr)
                                     ELSE ParsedResult(peer.op, peer.retText)]
  /\ UNCHANGED mainvars

NextPair ==
  \/ ExtractSkillsFromText
  \/ ComputeMatchScore
  \/ GenerateContentOk
  \/ GenerateContentErr
  \/ SleepDone
  \/ ReturnSkills
  \/ ReturnScore
  \/ PeerEntry
  \/ PeerGenerateContentOk
  \/ PeerGenerateContentErr
  \/ PeerSleepDone
  \/ PeerReturn

SpecPair == InitPair /\ [][NextPair]_vars

----------------------------------------------------------------------------
(* The services that write the tables.  No call of the AI service runs     *)
(* beside them: its variables rest.                                         *)

callvars == <<op, input, pc, clientCreated, attempt, backoff, nAttempts, waits,
              outcomes, cancelled, atCancel, retText, retErr, parsedText, frag,
              result, req, resp, stored, peer>>

NoAICall ==
  /\ op = "none"
  /\ input = << >>
  /\ pc = "none"
  /\ clientCreated = FALSE
  /\ attempt = 0
  /\ backoff = 0
  /\ nAttempts = 0
  /\ waits = << >>
  /\ outcomes = << >>
  /\ cancelled = FALSE
  /\ atCancel = NoCancel
  /\ retText = << >>
  /\ retErr = ""
  /\ parsedText = NotParsed
  /\ frag = NoFrag
  /\ result = NoResult
  /\ req = NoReq
  /\ resp = NoResp
  /\ stored = << >>
  /\ peer = NoPeer

(* CreateJob of job_service.go.  A row of jobs is its id, its user_id and   *)
(* its payment_tx_hash; title, description, skills, salary, location and    *)
(* created_at are stored as given and left out.                             *)

\* The most jobs the table holds.
MaxJobs == 2

HashLen == 66

Repeat(c, n) == [i \in 1..n |-> c]

\* The strings a poster sends as payment_tx_hash.
PaymentTxs ==
  { << >>,
    <<"0">>,
    <<"0", "x">>,
    <<"0", "x">> \o Repeat("a", HashLen - 2),
    <<"0", "x">> \o Repeat("z", HashLen - 2),
    <<"0", "x">> \o Repeat("a", HashLen - 3),
    <<"0", "x">> \o Repeat("a", HashLen - 1),
    <<"0", "X">> \o Repeat("a", HashLen - 2),
    Repeat("a", HashLen) }

\* uuid.Parse: the strings that are UUIDs, among those a caller passes.
UUIDs == {"u1", "u2"}

UserIDStrs == UUIDs \cup {"", "not-a-uuid"}

ParseUUID(s) == [ok |-> s \in UUIDs, id |-> s, err |-> IF s \in UUIDs THEN "" ELSE "invalid UUID"]

ErrPaymentMissing == "payment required before posting job (payment_tx_hash missing)"

ErrHashFormat == "invalid transaction hash format"

\* The check of line 335 passing on any string of 66 characters.
FormatOk_LengthOnly(paymentTx) == Len(paymentTx) = HashLen

\* Line 335, negated: the hash CreateJob lets through.
FormatOk(paymentTx) ==
  ~(Len(paymentTx) # HashLen \/ Slice(paymentTx, 0, 2) # <<"0", "x">>)

\* The INSERT of line 346: the foreign key needs the poster's row, and the
\* database may fail besides.
InsertJobErr(userID, fail) ==
  IF fail \/ ~(\E u \in db.users : u.id = userID) THEN DbErr ELSE ""

\* The error CreateJob returns, in the order of its checks.
CreateJobErr(userIDStr, paymentTx, fail) ==
  IF ~ParseUUID(userIDStr).ok THEN ParseUUID(userIDStr).err
  ELSE IF paymentTx = << >> THEN ErrPaymentMissing
  ELSE IF ~FormatOk(paymentTx) THEN ErrHashFormat
  ELSE InsertJobErr(ParseUUID(userIDStr).id, fail)

JobRow(id, userID, paymentTx) ==
  [id |-> id, user_id |-> userID, payment_tx_hash |-> paymentTx]

\* The call CreateJob made last: its arguments, what it returned and the
\* table it found.
JobCall(userIDStr, paymentTx, id, err, before) ==
  [userIDStr |-> userIDStr, paymentTx |-> paymentTx, id |-> id, err |-> err,
   before |-> before]

NoJobCall == JobCall("", << >>, 0, "", << >>)

\* One user, u1; u2 is a UUID with no row.
InitJobs ==
  /\ NoAICall
  /\ db = [users |-> {[id |-> "u1"]}, jobs |-> << >>, call |-> NoJobCall]

\* job_service.go, CreateJob.  uuid.New() is the next unused id.
CreateJob ==
  /\ Len(db.jobs) < MaxJobs
  /\ \E userIDStr \in UserIDStrs, paymentTx \in PaymentTxs, fail \in BOOLEAN :
       db' = IF CreateJobErr(userIDStr, paymentTx, fail) # ""
             THEN [db EXCEPT !.call =
                     JobCall(userIDStr, paymentTx, 0,
                             CreateJobErr(userIDStr, paymentTx, fail), db.jobs)]
             ELSE [db EXCEPT !.jobs =
                     Append(@, JobRow(Len(db.jobs) + 1, userIDStr, paymentTx)),
                             !.call =
                     JobCall(userIDStr, paymentTx, Len(db.jobs) + 1, "", db.jobs)]
  /\ UNCHANGED callvars

NextJobs == CreateJob

SpecJobs == InitJobs /\ [][NextJobs]_vars

(* RegisterUser of auth_service.go, called by several requests at once.     *)
(* Each call is two statements on the database, the SELECT EXISTS of line   *)
(* 37 and the INSERT of line 52; the statements of different calls          *)
(* interleave.  A row of users is its id and its email here.                *)

\* The most calls of RegisterUser that run at once.
MaxCalls == 2

Calls == 1..MaxCalls

Emails == {"a@x", "b@x"}

ErrEmailRegistered == "email already registered"

ErrDuplicateKey == "duplicate key value violates unique constraint"

ErrHash == "bcrypt error"

\* The INSERT into a table whose column email is not declared UNIQUE.
InsertUserErr_NoUnique(users, email, fail) == IF fail THEN DbErr ELSE ""

\* The INSERT of line 52 under email TEXT UNIQUE NOT NULL (database.sql
\* line 6): a second row with the email is refused.
InsertUserErr(users, email, fail) ==
  IF fail THEN DbErr
  ELSE IF \E u \in users : u.email = email THEN ErrDuplicateKey
  ELSE ""

RegCall(email, at, exists, err) ==
  [email |-> email, pc |-> at, exists |-> exists, err |-> err]

\* The rows the table may hold before the calls.
EarlierUsers == {[id |-> 0, email |-> "a@x"]}

InitRegister ==
  /\ NoAICall
  /\ \E emails \in [Calls -> Emails], users \in SUBSET EarlierUsers :
       db = [users |-> users, jobs |-> << >>,
             calls |-> [c \in Calls |-> RegCall(emails[c], "select", FALSE, "")]]

\* Lines 36-43: the SELECT EXISTS fails, finds the email, or does not.
SelectOutcome(users, call, fail) ==
  IF fail THEN [call EXCEPT !.pc = "returned", !.err = DbErr]
  ELSE IF \E u \in users : u.email = call.email
  THEN [call EXCEPT !.pc = "returned", !.exists = TRUE, !.err = ErrEmailRegistered]
  ELSE [call EXCEPT !.pc = "insert"]

RegisterUserSelect ==
  /\ \E c \in Calls, fail \in BOOLEAN :
       /\ db.calls[c].pc = "select"
       /\ db' = [db EXCEPT !.calls[c] = SelectOutcome(db.users, db.calls[c], fail)]
  /\ UNCHANGED callvars

\* Lines 45-61: HashPassword, uuid.New() (the call's own id) and the INSERT.
RegisterUserInsert ==
  /\ \E c \in Calls, hashFail \in BOOLEAN, fail \in BOOLEAN :
       /\ db.calls[c].pc = "insert"
       /\ db' = IF hashFail
                THEN [db EXCEPT !.calls[c].pc = "returned", !.calls[c].err = ErrHash]
                ELSE IF InsertUserErr(db.users, db.calls[c].email, fail) # ""
                THEN [db EXCEPT !.calls[c].pc = "returned",
                                !.calls[c].err =
                                   InsertUserErr(db.users, db.calls[c].email, fail)]
                ELSE [db EXCEPT !.calls[c].pc = "returned",
                                !.users = @ \cup {[id |-> c, email |-> db.calls[c].email]}]
  /\ UNCHANGED callvars

NextRegister ==
  \/ RegisterUserSelect
  \/ RegisterUserInsert

SpecRegister == InitRegister /\ [][NextRegister]_vars

(* UpdateProfile (PUT /profile) and UpdateUser of auth_service.go.  A row   *)
(* of users holds every column but created_at; a nullable column is null or *)
(* a value, and skills holds the JSON text json.Marshal gave.               *)

NullText == [null |-> TRUE, v |-> ""]

Text(s) == [null |-> FALSE, v |-> s]

NullJSON == [null |-> TRUE, v |-> << >>]

JSONText(t) == [null |-> FALSE, v |-> t]

UserRow(id, name, email) ==
  [id |-> id, name |-> name, email |-> email, password_hash |-> "hash of " \o id,
   bio |-> NullText, linkedin_url |-> NullText, skills |-> NullJSON,
   wallet_address |-> NullText]

\* A *string or a []string of the request: nil, or its value.
NilString == [nil |-> TRUE, v |-> ""]

String(s) == [nil |-> FALSE, v |-> s]

NilStrings == [nil |-> TRUE, v |-> << >>]

Strings(l) == [nil |-> FALSE, v |-> l]

ProfileKeys == {"name", "bio", "linkedin_url", "wallet_address", "skills"}

\* updateProfileRequest after BodyParser: no field, one field or every field
\* of the body.
ProfileRequests ==
  {r \in [name : {NilString, String("n")},
          bio : {NilString, String("b")},
          linkedin_url : {NilString, String("l")},
          wallet_address : {NilString, String("w")},
          skills : {NilStrings, Strings(<< >>), Strings(<< <<"a">>, <<"m">> >>)}] :
     Cardinality({k \in ProfileKeys : ~r[k].nil}) \in {0, 1, 5}}

NoProfileRequest ==
  [name |-> NilString, bio |-> NilString, linkedin_url |-> NilString,
   wallet_address |-> NilString, skills |-> NilStrings]

\* A value of the map updates with its dynamic type.
Dyn(k, x) == [t |-> IF k = "skills" THEN "[]string" ELSE "string", nil |-> x.nil, v |-> x.v]

\* Lines 83-98 of UpdateProfile: one key for each field that is not nil.
UpdatesOf(r) == [k \in {f \in ProfileKeys : ~r[f].nil} |-> Dyn(k, r[k])]

\* The maps a caller inside the package passes: the skills alone, as
\* ExtractSkills does, nil or not, and a map with a key that is no column
\* of the list.
ServiceUpdates ==
  { [k \in {"skills"} |-> Dyn(k, Strings(<< <<"m">> >>))],
    [k \in {"skills"} |-> Dyn(k, NilStrings)],
    [k \in {"email", "name"} |-> Dyn(k, String("n"))],
    [k \in {} |-> Dyn(k, NilString)] }

\* updates[k].(T), the type assertion with ok.
HasKey(updates, k, t) == k \in DOMAIN updates /\ updates[k].t = t

RECURSIVE JoinQuoted(_, _)
JoinQuoted(l, i) ==
  IF i > Len(l) THEN << >>
  ELSE IF i = Len(l) THEN Quoted(DQ, l[i])
  ELSE Quoted(DQ, l[i]) \o <<",">> \o JoinQuoted(l, i + 1)

\* json.Marshal of a []string: null for the nil slice; the labels of this
\* alphabet need no escape.
MarshalStrings(x) ==
  IF x.nil THEN <<"n">> ELSE <<"[">> \o JoinQuoted(x.v, 1) \o <<"]">>

\* Lines 194-220: the SET clauses on one row.
SetRow(row, updates) ==
  [row EXCEPT
     !.name = IF HasKey(updates, "name", "string") THEN updates["name"].v ELSE @,
     !.bio = IF HasKey(updates, "bio", "string") THEN Text(updates["bio"].v) ELSE @,
     !.linkedin_url = IF HasKey(updates, "linkedin_url", "string")
                      THEN Text(updates["linkedin_url"].v) ELSE @,
     !.wallet_address = IF HasKey(updates, "wallet_address", "string")
                        THEN Text(updates["wallet_address"].v) ELSE @,
     !.skills = IF HasKey(updates, "skills", "[]string")
                THEN JSONText(MarshalStrings(updates["skills"])) ELSE @]

\* An UPDATE with no WHERE clause.
Where_EveryRow(row, userID) == row.id # ""

\* Line 228: WHERE id = $n.
Where(row, userID) == row.id = userID

NoClause(updates) ==
  \A k \in ProfileKeys : ~HasKey(updates, k, IF k = "skills" THEN "[]string" ELSE "string")

\* UpdateUser: its error and the table it leaves.
UpdateUserResult(users, userID, updates, fail) ==
  IF NoClause(updates) THEN [err |-> "", users |-> users]
  ELSE IF fail THEN [err |-> DbErr, users |-> users]
  ELSE [err |-> "",
        users |-> {IF Where(u, userID) THEN SetRow(u, updates) ELSE u : u \in users}]

ProfileCall(fn, userID, r, updates, status, error, before) ==
  [fn |-> fn, userID |-> userID, req |-> r, updates |-> updates, status |-> status,
   error |-> error, before |-> before]

NoProfileCall == ProfileCall("none", "", NoProfileRequest, << >>, 0, "", {})

InitProfile ==
  /\ NoAICall
  /\ db = [users |-> {UserRow("u1", "n1", "a@x"), UserRow("u2", "n2", "b@x")},
           jobs |-> << >>, call |-> NoProfileCall]

\* The response of UpdateProfile, in the order of its checks: status and
\* error, and whether UpdateUser ran to its end.
ProfileOutcome(userID, fault, updates, updateErr) ==
  IF userID = "" THEN [status |-> 401, error |-> "unauthorized", run |-> FALSE]
  ELSE IF fault = "body" THEN [status |-> 400, error |-> "invalid request", run |-> FALSE]
  ELSE IF DOMAIN updates = {}
  THEN [status |-> 400, error |-> "no updates provided", run |-> FALSE]
  ELSE IF updateErr # "" THEN [status |-> 500, error |-> "failed to update", run |-> FALSE]
  ELSE IF fault = "get"
  THEN [status |-> 500, error |-> "failed to fetch updated user", run |-> TRUE]
  ELSE [status |-> 200, error |-> "", run |-> TRUE]

ProfileStep(userID, r, res, out) ==
  db' = [db EXCEPT !.users = IF out.run THEN res.users ELSE @,
                   !.call = ProfileCall("UpdateProfile", userID, r, UpdatesOf(r),
                                        out.status, out.error, db.users)]

\* What may go wrong in one request: the body does not parse, the UPDATE
\* fails, the SELECT of GetUserByID fails.
ProfileFaults == {"none", "body", "update", "get"}

\* profile handler, UpdateProfile; userID "" is the request with no user_id.
UpdateProfile ==
  /\ \E userID \in {"", "u1"}, r \in ProfileRequests, fault \in ProfileFaults :
       ProfileStep(userID, r,
                   UpdateUserResult(db.users, userID, UpdatesOf(r), fault = "update"),
                   ProfileOutcome(userID, fault, UpdatesOf(r),
                                  UpdateUserResult(db.users, userID, UpdatesOf(r),
                                                   fault = "update").err))
  /\ UNCHANGED callvars

\* UpdateUser called inside the package; u3 has no row.
UpdateUser ==
  /\ \E userID \in {"u1", "u3"}, updates \in ServiceUpdates, fail \in BOOLEAN :
       db' = [db EXCEPT
                !.users = UpdateUserResult(db.users, userID, updates, fail).users,
                !.call = ProfileCall("UpdateUser", userID, NoProfileRequest, updates, 0,
                                     UpdateUserResult(db.users, userID, updates, fail).err,
                                     db.users)]
  /\ UNCHANGED callvars

NextProfile ==
  \/ UpdateProfile
  \/ UpdateUser

SpecProfile == InitProfile /\ [][NextProfile]_vars

----------------------------------------------------------------------------
(* Properties *)

Done == pc \in {"returned", "done"}

Schedule == <<1, 2, 4>>

RECURSIVE Sum(_)
Sum(ws) == IF ws = << >> THEN 0 ELSE Head(ws) + Sum(Tail(ws))

IsBlank(s) == \A i \in 1..Len(s) : s[i] \in {" ", "\t"}

HasDigit(s) == \E i \in 1..Len(s) : s[i] \in {"0", "1", "2", "9"}

AllFailed(outs) == \A k \in 1..Len(outs) : ~outs[k].ok

\* C1: one call of callGenAI issues at most 4 provider attempts (the first
\* and 3 retries), whatever the attempts' outcomes.
C1_AtMostFourAttempts == nAttempts <= 4 /\ Len(outcomes) <= nAttempts

C1_FourAttempts == pc = "done" /\ nAttempts = 4 /\ Len(outcomes) = 4

\* C2: when ctx is cancelled while callGenAI sleeps between attempts, the
\* call returns without completing that sleep and without a further attempt.
C2_CancelAbortsSleep ==
  (cancelled /\ atCancel.pc = "sleeping") =>
     /\ nAttempts = atCancel.nAttempts
     /\ Len(waits) = atCancel.nWaits

\* C3: the wait after the k-th failed attempt (k = 1, 2, 3) is 2^(k-1) units,
\* no wait follows the 4th attempt, and 4 failed attempts wait 7 units in all.
C3_BackoffSchedule ==
  /\ Len(waits) <= 3
  /\ \A k \in 1..Len(waits) : waits[k] = Schedule[k] /\ ~outcomes[k].ok
  /\ pc = "sleeping" =>
        /\ Len(outcomes) <= 3
        /\ Len(waits) = Len(outcomes) - 1
        /\ backoff = Schedule[Len(outcomes)]
  /\ (pc \in {"inflight", "returned", "done"} /\ nAttempts > 0) =>
        Len(waits) = nAttempts - 1
  /\ (Done /\ Len(outcomes) = 4 /\ AllFailed(outcomes)) =>
        waits = <<1, 2, 4>> /\ Sum(waits) = 7

C3_AllFourFailed ==
  pc = "done" /\ Len(outcomes) = 4 /\ AllFailed(outcomes) /\ Sum(waits) = 7

\* C4: when attempt k+1 succeeds after k failures, callGenAI returns that
\* attempt's text and no error, and nothing of the k failures; when all 4
\* attempts fail it returns the 4th attempt's error.
FinalOutcome(outs, last) ==
  /\ AllFailed(SubSeq(outs, 1, Len(outs) - 1))
  /\ last.ok => retErr = "" /\ retText = last.text
  /\ ~last.ok => Len(outs) = 4 /\ retErr = last.err /\ retText = << >>
  /\ (pc = "done" /\ ~last.ok) => result = Failure(last.err)
  /\ (pc = "done" /\ last.ok) => result.err \notin ErrCodes \cup {CtxErr, ClientErr}

C4_OnlyFinalOutcome ==
  (Done /\ outcomes # << >>) => FinalOutcome(outcomes, outcomes[Len(outcomes)])

C4_FourthAttemptSucceeds ==
  /\ pc = "done"
  /\ Len(outcomes) = 4
  /\ outcomes[4].ok
  /\ outcomes[1].err # outcomes[3].err
  /\ retText = outcomes[4].text

\* C5: a response without error ends the retry loop whatever its content: no
\* attempt and no wait follows it, and it is the text given to the parser.
C5_SuccessEndsLoop ==
  \A k \in 1..Len(outcomes) :
     outcomes[k].ok =>
        /\ k = Len(outcomes)
        /\ Done
        /\ nAttempts = k
        /\ Len(waits) = k - 1
        /\ retErr = "" /\ retText = outcomes[k].text
        /\ pc = "done" => parsedText = outcomes[k].text

C5_EmptyResponseParsed ==
  /\ pc = "done"
  /\ Len(outcomes) = 2
  /\ outcomes[2].ok
  /\ outcomes[2].text = << >>
  /\ parsedText = << >>

\* C6: every score ComputeMatchScore returns without an error is an integer
\* from 0 to 100, whichever stage of parseScore recovered it.
C6_ScoreInRange ==
  (pc = "done" /\ op = "score" /\ result.ok) => result.score \in 0..100

C6_ScannedScoreClamped ==
  /\ pc = "done"
  /\ op = "score"
  /\ result.ok
  /\ result.path = "scan_response"
  /\ result.raw > 100

\* C7 (as claimed): parseScore succeeds, with a score from 0 to 100, for
\* every response that holds a decimal digit anywhere, and fails only for a
\* response without any digit.
C7_AnyDigitSucceeds ==
  (pc = "done" /\ op = "score" /\ parsedText # NotParsed) =>
     /\ result.ok <=> HasDigit(retText)
     /\ result.ok => result.score \in 0..100

\* The text the digit scan reads: the fragment when one was isolated, the
\* whole trimmed response otherwise.
ScannedText == IF frag.err = "" THEN frag.text ELSE TrimSpace(retText)

\* C7 (amended): parseScore succeeds, with a score from 0 to 100, exactly
\* when the text it scans (the isolated fragment, or the whole trimmed
\* response when no fragment was isolated) holds a decimal digit.
C7_DigitInScannedText ==
  (pc = "done" /\ op = "score" /\ parsedText # NotParsed) =>
     /\ result.ok <=> HasDigit(ScannedText)
     /\ result.ok => result.score \in 0..100

C7_DigitOutsideFragment ==
  /\ pc = "done"
  /\ op = "score"
  /\ parsedText # NotParsed
  /\ HasDigit(retText)
  /\ frag.err = ""
  /\ ~result.ok

\* C8: ExtractSkillsFromText with an empty or all-whitespace bio returns the
\* empty-input error without creating a client or making a provider attempt.
C8_EmptyBioRejected ==
  (op = "extract" /\ IsBlank(input) /\ pc # "idle") =>
     /\ pc = "done"
     /\ result = Failure("bio is empty")
     /\ ~clientCreated
     /\ nAttempts = 0
     /\ outcomes = << >>

C8_BlankBioDone ==
  op = "extract" /\ input = <<" ", "\t">> /\ pc = "done" /\ ~result.ok

\* C9: ComputeMatchScore with an empty or all-whitespace job description
\* fails with the empty-input error before any provider attempt.
C9_EmptyDescriptionRejected ==
  (op = "score" /\ IsBlank(input)) =>
     /\ nAttempts = 0
     /\ pc = "done" => ~result.ok /\ outcomes = << >>

\* The first-open/last-close reference, by positions.
Positions(s, c) == {i \in 0..(Len(s) - 1) : s[i + 1] = c}
Least(S) == CHOOSE i \in S : \A j \in S : i <= j
Greatest(S) == CHOOSE i \in S : \A j \in S : j <= i

RefCut(s, open, closes, shape) ==
  IF closes = {} THEN [text |-> << >>, err |-> "malformed json " \o shape]
  ELSE IF Greatest(closes) <= open THEN [text |-> << >>, err |-> "malformed json " \o shape]
  ELSE [text |-> SubSeq(s, open + 1, Greatest(closes) + 1), err |-> ""]

RefFragment(s, objs, arrs) ==
  IF objs = {} /\ arrs = {} THEN [text |-> << >>, err |-> "no json found"]
  ELSE IF objs # {} /\ (arrs = {} \/ Least(objs) < Least(arrs))
  THEN RefCut(s, Least(objs), Positions(s, "}"), "object")
  ELSE RefCut(s, Least(arrs), Positions(s, "]"), "array")

FragmentIsReference(s) ==
  frag = RefFragment(s, Positions(s, "{"), Positions(s, "["))

\* C10: firstJSONFragment is the first-open/last-close cut: the shape of the
\* earlier of the first "{" and the first "[", from that bracket through the
\* last matching closing bracket of the whole text; "no json found" without
\* a bracket, "malformed" when the closing bracket is missing or not after
\* the opening one; brackets are not balanced.
C10_FirstOpenLastClose ==
  (pc = "done" /\ parsedText # NotParsed) => FragmentIsReference(TrimSpace(parsedText))

C10_ClosesInsideFragment ==
  /\ pc = "done"
  /\ parsedText # NotParsed
  /\ frag.err = ""
  /\ frag.text[1] = "{"
  /\ \E i \in 2..(Len(frag.text) - 1) : frag.text[i] = "}"
  /\ \E i \in 2..(Len(frag.text) - 1) : frag.text[i] = "{"

\* The JSON text of a list of labels: each label between the quotes chosen
\* for it, the separator between two labels, brackets around.
Labels == {<<"a">>, <<"A">>, <<"m">>, << >>}

LabelLists == UNION {[1..n -> Labels] : n \in 0..3}

Separators == {<<",">>, <<",", " ">>}

RECURSIVE Joined(_, _, _, _)
Joined(labels, quotes, sep, i) ==
  IF i > Len(labels) THEN << >>
  ELSE IF i = Len(labels) THEN Quoted(quotes[i], labels[i])
  ELSE Quoted(quotes[i], labels[i]) \o sep \o Joined(labels, quotes, sep, i + 1)

ArrayText(labels, quotes, sep) == <<"[">> \o Joined(labels, quotes, sep, 1) \o <<"]">>

ExactArrays ==
  {[text |-> ArrayText(l, [i \in 1..Len(l) |-> DQ], sep), labels |-> l] :
     l \in LabelLists, sep \in Separators}

ParsedSkills == pc = "done" /\ op = "extract" /\ parsedText # NotParsed

\* C11: for a response that is exactly a well-formed JSON array of strings,
\* parseStringArray returns those strings, in their order, duplicates and
\* casing kept, nothing added, dropped or altered.
C11_ExactArrayVerbatim ==
  ParsedSkills =>
     \A e \in ExactArrays :
        parsedText = e.text => result.ok /\ result.skills = e.labels

C11_DuplicateAndCasingKept ==
  /\ ParsedSkills
  /\ parsedText = ArrayText(<< <<"a">>, <<"A">>, <<"a">> >>, <<DQ, DQ, DQ>>, <<",">>)
  /\ result.ok
  /\ result.skills = << <<"a">>, <<"A">>, <<"a">> >>
  /\ result.path = "strict"

\* Lists whose labels are written some in single and some in double quotes,
\* at least one in single quotes.
MixedArrays ==
  UNION {{[text |-> ArrayText(l, q, sep), labels |-> l] :
            l \in [1..n -> Labels],
            q \in {f \in [1..n -> {DQ, SQ}] : \E i \in 1..n : f[i] = SQ},
            sep \in Separators} : n \in 1..3}

\* What the repaired text decodes to, against the result: the same number
\* of elements, and every string of it in its place.
RepairedAgrees(rep) ==
  IF rep.ok /\ rep.v.t = "arr" /\ \A k \in 1..Len(rep.v.kids) : rep.v.kids[k].t \in {"str", "null"}
  THEN /\ result.ok
       /\ Len(result.skills) = Len(rep.v.kids)
       /\ \A k \in 1..Len(rep.v.kids) :
             rep.v.kids[k].t = "str" => result.skills[k] = rep.v.kids[k].s
  ELSE ~result.ok

\* C12: when the isolated fragment does not parse strictly as a list of
\* strings, every single quote of it is replaced by a double quote and the
\* text parsed again; when that succeeds the labels of the repaired text are
\* returned in order.  So a list whose labels mix single and double quotes,
\* prose around it or not, yields its labels in order.
C12_RepairSingleQuotes ==
  (ParsedSkills /\ frag.err = "") =>
     /\ result.path \in {"strict", "repair"}
     /\ result.path = "strict" => result.ok
     /\ result.path = "repair" => RepairedAgrees(JSONDecode(ReplaceAll(frag.text, SQ, DQ)))
     /\ \A e \in MixedArrays :
          frag.text = e.text =>
             result.ok /\ result.path = "repair" /\ result.skills = e.labels

C12_MixedQuotesInProse ==
  /\ ParsedSkills
  /\ parsedText = <<"a", " ">>
                   \o ArrayText(<< <<"m">>, <<"a">>, <<"A">> >>, <<DQ, SQ, DQ>>, <<",">>)
                   \o <<" ", "a">>
  /\ result.ok
  /\ result.path = "repair"
  /\ result.skills = << <<"m">>, <<"a">>, <<"A">> >>

\* The failure kinds, by the errors the code returns.
ErrorKind(e) ==
  CASE e = "bio is empty" -> "EmptyInput"
    [] e \in ErrCodes \cup {CtxErr, ClientErr} -> "ProviderFailure"
    [] e = "no json found" -> "NoStructuredFragment"
    [] e \in {"malformed json object", "malformed json array"} -> "MalformedFragment"
    [] e \in {"json syntax", "json type"} ->
         IF op = "extract" THEN "UnparsableSkills" ELSE "UnparsableScore"
    [] e = "could not parse match score" -> "UnparsableScore"
    [] OTHER -> "none"

\* A decoded text that is a list of strings for json.Unmarshal into []string.
IsStringList(r) ==
  /\ r.ok
  /\ r.v.t = "arr"
  /\ \A k \in 1..Len(r.v.kids) : r.v.kids[k].t \in {"str", "null"}

\* C13: the whole trimmed response is parsed as a list only when no
\* fragment was isolated; when a fragment was isolated and neither it nor
\* its quote-repaired text parses as a list of strings, the call fails
\* (UnparsableSkills) and returns no skills.
C13_WholeOnlyWithoutFragment ==
  ParsedSkills =>
     /\ result.path = "whole" <=> frag.err # ""
     /\ (/\ frag.err = ""
         /\ ~IsStringList(JSONDecode(frag.text))
         /\ ~IsStringList(JSONDecode(ReplaceAll(frag.text, SQ, DQ)))) =>
           /\ ~result.ok
           /\ result.skills = << >>
           /\ ErrorKind(result.err) = "UnparsableSkills"

C13_RepairedFragmentFails ==
  /\ ParsedSkills
  /\ frag.err = ""
  /\ Index(frag.text, SQ) # -1
  /\ Len(parsedText) > Len(frag.text)
  /\ ~IsStringList(JSONDecode(ReplaceAll(frag.text, SQ, DQ)))
  /\ ~result.ok
  /\ result.err = "json syntax"

ParsedScore == pc = "done" /\ op = "score" /\ parsedText # NotParsed

\* The clamp as the contract words it.
Clamped(v) == IF v < 0 THEN 0 ELSE IF v > 100 THEN 100 ELSE v

\* Integers as JSON writes them, and integers as strconv.Atoi reads them.
IntegerTexts ==
  {[text |-> <<"1", "2">>, value |-> 12], [text |-> <<"1", "2", "0">>, value |-> 120],
   [text |-> <<"-", "2">>, value |-> 0 - 2], [text |-> <<"1", "2", "1", "2">>, value |-> 1212],
   [text |-> <<"0">>, value |-> 0], [text |-> <<"9", "9">>, value |-> 99],
   [text |-> <<"1", "0", "0">>, value |-> 100], [text |-> <<"1", "0", "1">>, value |-> 101]}

AtoiTexts == IntegerTexts \cup {[text |-> <<"0", "1">>, value |-> 1]}

\* {"match_score":v}, v an integer or a string that holds one, alone or
\* after another member.
FieldCases ==
  {[text |-> <<"{">> \o Quoted(DQ, <<"m">>) \o <<":">> \o v.text \o <<"}">>,
    value |-> v.value] : v \in IntegerTexts}
  \cup {[text |-> <<"{">> \o Quoted(DQ, <<"m">>) \o <<":">> \o Quoted(DQ, v.text) \o <<"}">>,
         value |-> v.value] : v \in AtoiTexts}
  \cup {[text |-> <<"{">> \o Quoted(DQ, <<"a">>) \o <<":">> \o v.text \o <<",">>
                  \o Quoted(DQ, <<"m">>) \o <<":", " ">> \o Quoted(DQ, <<"2", "0", "0">>)
                  \o <<"}">>,
         value |-> 200] : v \in IntegerTexts}

\* C14: when the fragment is a mapping whose match_score is an integer, or
\* a string that reads as an integer, the score is that integer clamped
\* into 0..100: 99 gives 99, "120" gives 100.
C14_FieldValueClamped ==
  (ParsedScore /\ frag.err = "") =>
     \A c \in FieldCases :
        frag.text = c.text =>
           /\ result.ok
           /\ result.score = Clamped(c.value)
           /\ result.path \in {"field_number", "field_string"}

C14_StringFieldClamped ==
  /\ ParsedScore
  /\ parsedText = <<"{">> \o Quoted(DQ, <<"m">>) \o <<":">> \o Quoted(DQ, <<"1", "2", "0">>)
                   \o <<"}">>
  /\ result.ok
  /\ result.path = "field_string"
  /\ result.score = 100

\* The first run of 1 to 3 digits, by positions: it starts at the first
\* digit of the text and takes the digits that follow it, three at most.
RunLength(s, start) ==
  IF start + 1 <= Len(s) /\ s[start + 1] \in Digits
  THEN IF start + 2 <= Len(s) /\ s[start + 2] \in Digits THEN 3 ELSE 2
  ELSE 1

RunValue(s, start, len) ==
  CASE len = 1 -> DigitVal(s[start])
    [] len = 2 -> 10 * DigitVal(s[start]) + DigitVal(s[start + 1])
    [] len = 3 -> 100 * DigitVal(s[start]) + 10 * DigitVal(s[start + 1])
                  + DigitVal(s[start + 2])

RefRunAt(s, start) == RunValue(s, start, RunLength(s, start))

RefFirstInt(s) == RefRunAt(s, 1 + Least({i \in 0..(Len(s) - 1) : s[i + 1] \in Digits}))

\* The member match_score of a decoded mapping holds a number, or a string
\* that reads as an integer.
UnsignedText(s) == s # << >> /\ \A i \in 1..Len(s) : s[i] \in Digits

IntegerText(s) ==
  /\ s # << >>
  /\ UnsignedText(IF s[1] \in {"-", "+"} THEN Tail(s) ELSE s)

NumericAt(m, at) ==
  /\ at # 0
  /\ \/ m.kids[at].t = "num"
     \/ m.kids[at].t = "str" /\ IntegerText(m.kids[at].s)

NumericField(m) == m.err = "" /\ NumericAt(m, LastKey(m.keys, MatchScoreKey, Len(m.keys)))

\* C15: when no fragment was isolated the score is the first run of 1 to 3
\* digits of the whole trimmed response, clamped; when the fragment is no
\* mapping, or has no match_score, or one that is neither a number nor a
\* string holding an integer, it is the first such run of the fragment.
C15_FirstDigitRun ==
  (ParsedScore /\ HasDigit(ScannedText)) =>
     IF frag.err # ""
     THEN /\ result.ok
          /\ result.path = "scan_response"
          /\ result.score = Clamped(RefFirstInt(TrimSpace(parsedText)))
     ELSE ~NumericField(UnmarshalMap(frag.text)) =>
            /\ result.ok
            /\ result.path \in {"scan_unparsed", "scan_fragment"}
            /\ result.score = Clamped(RefFirstInt(frag.text))

C15_ProseWithDigits ==
  /\ ParsedScore
  /\ parsedText = <<"a", " ", "1", "2", " ", "a", " ", "1", "0", "0">>
  /\ frag.err = "no json found"
  /\ result.ok
  /\ result.path = "scan_response"
  /\ result.score = 12

HasBracket(s) == \E i \in 1..Len(s) : s[i] \in {"{", "}", "[", "]"}

\* C16: for a response with no digit and no bracket at all, parseScore
\* fails with the kind UnparsableScore, and with no other kind.
C16_NoDigitNoBracketUnparsable ==
  (ParsedScore /\ ~HasDigit(parsedText) /\ ~HasBracket(parsedText)) =>
     /\ ~result.ok
     /\ ErrorKind(result.err) = "UnparsableScore"

\* C17: clampScore gives 0 for n < 0, 100 for n > 100 and n itself from 0
\* to 100; its result is from 0 to 100 and clamping it again changes
\* nothing.  Checked on the number every successful parse hands to it, and
\* on the integers around both ends.
C17_ClampScore ==
  /\ (ParsedScore /\ result.ok) =>
        /\ result.raw < 0 => result.score = 0
        /\ result.raw > 100 => result.score = 100
        /\ result.raw \in 0..100 => result.score = result.raw
        /\ result.score \in 0..100
        /\ clampScore(result.score) = result.score
  /\ \A n \in (0 - 3)..103 :
        /\ clampScore(n) = Clamped(n)
        /\ clampScore(clampScore(n)) = clampScore(n)

C17_NegativeClampedToZero ==
  /\ ParsedScore
  /\ result.ok
  /\ result.raw < 0
  /\ result.score = 0

\* C18: a call never answers a failure with a successful default: skills
\* are returned without error only when the response holds a list (it has
\* at least its opening bracket), a score only when the response holds a
\* digit; in particular no successful empty or absent list, and no
\* successful 0, comes from a response that holds neither.
C18_NoSuccessfulDefault ==
  /\ (ParsedSkills /\ result.ok) => Index(parsedText, "[") # -1
  /\ (ParsedScore /\ result.ok) => HasDigit(parsedText)

\* The service call of the handler has failed and the handler has answered.
RespondedFailure == pc = "responded" /\ result.err # "" /\ ~result.ok

\* C19: when the extraction or the scoring fails, the response of
\* ExtractSkills and of GetJob holds a generic message only: nothing of the
\* error of the service is in it.
C19_GenericFailureOnly ==
  RespondedFailure =>
     /\ resp.status = 500
     /\ resp.error \in {"ai extraction failed", "failed to compute match score"}
     /\ resp.details = ""

\* What one invocation must show, from its own input and the outcomes of
\* its own attempts alone.
ExpectedFromLast(o, last) ==
  IF last.ok THEN ParsedResult(o, last.text) ELSE Failure(last.err)

ExpectedResult(o, inp, outs) ==
  IF o = "extract" /\ IsBlank(inp) THEN Failure("bio is empty")
  ELSE IF outs = << >> THEN Failure(ClientErr)
  ELSE ExpectedFromLast(o, outs[Len(outs)])

BackoffAfter(k) == IF k = 0 THEN 1 ELSE 2 * Schedule[k]

OwnOutcomesOnly(o, inp, at, nAtt, ws, bo, outs, res) ==
  /\ Len(ws) <= 3
  /\ \A k \in 1..Len(ws) : ws[k] = Schedule[k]
  /\ AllFailed(SubSeq(outs, 1, Len(outs) - 1))
  /\ at = "inflight" =>
        nAtt = Len(outs) + 1 /\ Len(ws) = Len(outs) /\ bo = BackoffAfter(Len(outs))
  /\ at = "sleeping" =>
        nAtt = Len(outs) /\ Len(ws) = Len(outs) - 1 /\ bo = Schedule[Len(outs)]
  /\ at \in {"returned", "done"} =>
        /\ nAtt = Len(outs)
        /\ Len(ws) = (IF outs = << >> THEN 0 ELSE Len(outs) - 1)
        /\ outs # << >> => outs[Len(outs)].ok \/ Len(outs) = 4
  /\ at = "done" => res = ExpectedResult(o, inp, outs)

\* C20: two invocations share no state: in every interleaving of their
\* steps, the attempts, the waits, the backoff and the result of each are
\* those its own input and the outcomes of its own attempts give.
C20_OwnOutcomesOnly ==
  /\ OwnOutcomesOnly(op, input, pc, nAttempts, waits, backoff, outcomes, result)
  /\ OwnOutcomesOnly(peer.op, peer.input, peer.pc, peer.nAttempts, peer.waits,
                     peer.backoff, peer.outcomes, peer.result)

C20_SleepingSideBySide ==
  /\ pc = "sleeping"
  /\ peer.pc = "sleeping"
  /\ backoff = 4
  /\ peer.backoff = 1
  /\ op # peer.op
  /\ outcomes[1].err # peer.outcomes[1].err

HexDigits ==
  {"0", "1", "2", "3", "4", "5", "6", "7", "8", "9", "a", "b", "c", "d", "e", "f",
   "A", "B", "C", "D", "E", "F"}

\* "0x" followed by exactly 64 hexadecimal characters.
IsTxHash(h) ==
  /\ Len(h) = 66
  /\ h[1] = "0"
  /\ h[2] = "x"
  /\ \A i \in 3..66 : h[i] \in HexDigits

\* C21: CreateJob, called by a poster with a valid id, accepts a non-empty
\* payment transaction hash only if it is "0x" followed by exactly 64
\* hexadecimal characters; any other non-empty hash is rejected with the
\* invalid-format error and no row of jobs is inserted.
C21_OnlyHexHashAccepted ==
  (db.call.userIDStr \in UUIDs /\ db.call.paymentTx # << >>) =>
     IF IsTxHash(db.call.paymentTx)
     THEN db.call.err \in {"", DbErr}
     ELSE db.call.err = ErrHashFormat /\ db.jobs = db.call.before

\* The check of line 335, read off the row: 66 characters, the first two "0x".
PassedFormatCheck(h) ==
  /\ Len(h) = 66
  /\ h[1] = "0"
  /\ h[2] = "x"

\* C22: after any sequence of CreateJob calls every stored job has a
\* non-empty payment_tx_hash that passed the format check; a call with a
\* missing or rejected hash, or with a poster id that is not a UUID, returns
\* an error, and a call that returns an error leaves jobs unchanged.
C22_StoredJobsPassedCheck ==
  /\ \A i \in 1..Len(db.jobs) :
       /\ db.jobs[i].payment_tx_hash # << >>
       /\ PassedFormatCheck(db.jobs[i].payment_tx_hash)
  /\ (/\ db.call # NoJobCall
      /\ \/ db.call.paymentTx = << >>
         \/ ~PassedFormatCheck(db.call.paymentTx)
         \/ db.call.userIDStr \notin UUIDs) => db.call.err # ""
  /\ db.call.err # "" => db.jobs = db.call.before
  /\ db.call.err = "" /\ db.call # NoJobCall =>
       /\ Len(db.jobs) = Len(db.call.before) + 1
       /\ SubSeq(db.jobs, 1, Len(db.call.before)) = db.call.before

C22_RejectedAfterStored ==
  /\ Len(db.jobs) = 1
  /\ db.call.userIDStr = "u1"
  /\ db.call.err = ErrHashFormat
  /\ Len(db.call.paymentTx) = 66
  /\ db.call.before = db.jobs

\* C23: after any interleaving of concurrent RegisterUser calls at most one
\* row of users exists per email address: of two registrations with the
\* same email at most one returns a user id, and a call that returns an
\* error adds no row.
C23_OneRowPerEmail ==
  /\ \A u \in db.users, v \in db.users : u.email = v.email => u.id = v.id
  /\ \A c \in Calls, d \in Calls :
       (/\ c # d
        /\ db.calls[c].email = db.calls[d].email
        /\ db.calls[c].pc = "returned"
        /\ db.calls[d].pc = "returned") =>
          db.calls[c].err # "" \/ db.calls[d].err # ""
  /\ \A c \in Calls :
       (\E u \in db.users : u.id = c) <=>
          (db.calls[c].pc = "returned" /\ db.calls[c].err = "")

\* Two calls with one email both found no row; the INSERT of the second one
\* is refused.
C23_BothPassedTheSelect ==
  \E c \in Calls, d \in Calls :
    /\ c # d
    /\ db.calls[c].email = db.calls[d].email
    /\ db.calls[c].pc = "returned"
    /\ db.calls[c].err = ""
    /\ db.calls[d].pc = "returned"
    /\ ~db.calls[d].exists
    /\ db.calls[d].err = ErrDuplicateKey
    /\ Cardinality(db.users) = 1

RowOf(users, id) == CHOOSE u \in users : u.id = id

\* The fields a profile update provides and their values: the fields of the
\* body that are not nil, or the keys of the map handed to UpdateUser.
Provided(c, k) ==
  IF c.fn = "UpdateProfile" THEN ~c.req[k].nil ELSE k \in DOMAIN c.updates

ProvidedValue(c, k) == IF c.fn = "UpdateProfile" THEN c.req[k].v ELSE c.updates[k].v

\* The update reached the database and the database did not refuse it.
Applied(c) ==
  IF c.fn = "UpdateProfile"
  THEN c.status = 200 \/ c.error = "failed to fetch updated user"
  ELSE c.error = ""

\* Row a is row b with exactly the provided fields of call c written.
ExactlyProvided(c, b, a) ==
  /\ a.id = b.id
  /\ a.email = b.email
  /\ a.password_hash = b.password_hash
  /\ a.name = (IF Provided(c, "name") THEN ProvidedValue(c, "name") ELSE b.name)
  /\ \A k \in {"bio", "linkedin_url", "wallet_address"} :
       a[k] = (IF Provided(c, k) THEN [null |-> FALSE, v |-> ProvidedValue(c, k)]
               ELSE b[k])
  /\ IF Provided(c, "skills")
     THEN /\ ~a.skills.null
          /\ UnmarshalStrings(a.skills.v, << >>) =
               [err |-> "", arr |-> ProvidedValue(c, "skills")]
     ELSE a.skills = b.skills

\* C24: a profile update (UpdateProfile, UpdateUser) changes exactly the
\* provided fields among name, bio, linkedin_url, wallet_address and skills,
\* on the row of the authenticated user only; the fields not provided, the
\* other rows, the email and the password hash stay as they were, and a
\* request that provides no field, or that fails before or in the UPDATE,
\* changes nothing.
C24_ExactlyProvidedFields ==
  db.call.fn # "none" =>
    /\ {u.id : u \in db.users} = {u.id : u \in db.call.before}
    /\ Cardinality(db.users) = Cardinality(db.call.before)
    /\ \A b \in db.call.before :
         IF b.id = db.call.userID /\ Applied(db.call)
         THEN ExactlyProvided(db.call, b, RowOf(db.users, b.id))
         ELSE b \in db.users
    /\ (\A k \in ProfileKeys : ~Provided(db.call, k)) => db.users = db.call.before

\* A request with the bio alone, on a row whose name and skills were set
\* before.
C24_BioAlone ==
  /\ db.call.fn = "UpdateProfile"
  /\ db.call.status = 200
  /\ db.call.userID = "u1"
  /\ ~db.call.req.bio.nil
  /\ db.call.req.name.nil
  /\ db.call.req.skills.nil
  /\ RowOf(db.call.before, "u1").bio.null
  /\ RowOf(db.users, "u1").bio = [null |-> FALSE, v |-> "b"]
  /\ RowOf(db.users, "u1").name = "n"
  /\ RowOf(db.users, "u1").skills.v = <<"[", DQ, "a", DQ, ",", DQ, "m", DQ, "]">>

\* C25: once the caller's context is cancelled callGenAI starts no new
\* provider attempt: the attempts it has started are those it had started
\* when the context was cancelled, none when it was cancelled before the
\* call.
C25_NoAttemptAfterCancel ==
  cancelled =>
     nAttempts = (IF atCancel.pc = "none" THEN 0 ELSE atCancel.nAttempts)

\* The integer a run of digits writes, with its sign.
SignedValue(s) ==
  IF s[1] = "-" THEN 0 - DecVal(Tail(s))
  ELSE IF s[1] = "+" THEN DecVal(Tail(s))
  ELSE DecVal(s)

FieldInt(v) == IF v.t = "num" THEN v.n ELSE SignedValue(v.s)

FieldOf(m) == m.kids[LastKey(m.keys, MatchScoreKey, Len(m.keys))]

\* The path parseScore took and the score it gave, for a decoded fragment:
\* the field when it is numeric, the scan of the fragment otherwise.
FieldBeforeScan(m) ==
  IF NumericField(m)
  THEN /\ result.ok
       /\ result.path \in {"field_number", "field_string"}
       /\ result.score = Clamped(FieldInt(FieldOf(m)))
  ELSE /\ result.path \in {"scan_unparsed", "scan_fragment"}
       /\ result.ok => result.score = Clamped(RefFirstInt(frag.text))

\* C26: the fallback chain is ordered: the digit scan is consulted only when
\* no fragment was isolated, the fragment is no mapping, or its match_score
\* is absent or not numeric; when match_score is a number or a string that
\* holds an integer the score is that value clamped, whatever digits stand
\* earlier in the fragment or in the response.
C26_FieldBeforeScan ==
  ParsedScore =>
     IF frag.err # "" THEN result.path = "scan_response"
     ELSE FieldBeforeScan(UnmarshalMap(frag.text))

\* 9 {"a":12,"match_score": "200"}
C26_EarlierDigitsIgnored ==
  /\ ParsedScore
  /\ parsedText = <<"9", " ", "{">> \o Quoted(DQ, <<"a">>) \o <<":", "1", "2", ",">>
                   \o Quoted(DQ, <<"m">>) \o <<":", " ">> \o Quoted(DQ, <<"2", "0", "0">>)
                   \o <<"}">>
  /\ result.ok
  /\ result.path = "field_string"
  /\ result.score = 100

\* Fractional numbers and their integer parts.
FractionTexts ==
  {[text |-> <<"1", ".", "9">>, trunc |-> 1],
   [text |-> <<"9", "9", ".", "9">>, trunc |-> 99],
   [text |-> <<"-", "0", ".", "9">>, trunc |-> 0],
   [text |-> <<"-", "1", ".", "9">>, trunc |-> 0 - 1],
   [text |-> <<"1", "0", "0", ".", "2">>, trunc |-> 100]}

FractionCases ==
  {[text |-> <<"{">> \o Quoted(DQ, <<"m">>) \o <<":">> \o f.text \o <<"}">>,
    trunc |-> f.trunc] : f \in FractionTexts}

\* C27: when match_score is a fractional number the score is that number
\* truncated toward zero and then clamped into 0..100: 99.9 gives 99, -0.9
\* gives 0, 100.2 gives 100.
C27_FractionTruncated ==
  (ParsedScore /\ frag.err = "") =>
     \A c \in FractionCases :
        frag.text = c.text =>
           /\ result.ok
           /\ result.path = "field_number"
           /\ result.raw = c.trunc
           /\ result.score = (IF c.trunc < 0 THEN 0 ELSE IF c.trunc > 100 THEN 100 ELSE c.trunc)

C27_JustBelowHundred ==
  /\ ParsedScore
  /\ frag.text = <<"{">> \o Quoted(DQ, <<"m">>) \o <<":", "9", "9", ".", "9", "}">>
  /\ result.ok
  /\ result.score = 99

\* C28: when the handler ExtractSkills has extracted skills and writing them
\* to the user's row fails, the response still carries the extracted skills.
C28_SkillsReturnedWhenWriteFails ==
  (/\ pc = "responded"
   /\ req.handler = "ExtractSkills"
   /\ result.ok
   /\ resp.error = "failed to update user skills") =>
     resp.skills = result.skills

\* C29: the handler ExtractSkills writes the user's stored skills only after
\* the extraction succeeded: a step changes them only when the request is
\* authenticated, the bio is not blank, the last attempt was answered and the
\* answer parsed; and when the response carries a list of skills the stored
\* skills are that list.
C29_WriteOnlyAfterSuccess ==
  [][/\ stored' # stored =>
          /\ req.handler = "ExtractSkills"
          /\ req.auth
          /\ ~IsBlank(input)
          /\ outcomes # << >>
          /\ outcomes[Len(outcomes)].ok
          /\ result.ok
          /\ resp'.body = "skills"
     /\ resp'.body = "skills" => stored' = resp'.skills /\ resp'.skills = result.skills]_vars

\* The row now holds the skill of the answer, which it did not hold before.
C29_SkillsReplaced ==
  /\ pc = "responded"
  /\ req.handler = "ExtractSkills"
  /\ resp.body = "skills"
  /\ resp.skills = << <<"a">> >>
  /\ stored = resp.skills
  /\ stored \notin StoredSkills

ScanPaths == {"scan_response", "scan_unparsed", "scan_fragment"}

\* C30: the digit scan returns the value of at most the first 3 digits of
\* the first run of digits and ignores a sign: a run of 4 digits gives its
\* first 3 (1201 gives 120, clamped to 100), a minus sign before the digits
\* is dropped (-2 gives 2), and the value before the clamp is in 0..999.
C30_ScanAtMostThreeDigits ==
  (ParsedScore /\ result.ok /\ result.path \in ScanPaths) =>
     /\ result.raw \in 0..999
     /\ result.raw =
          RefFirstInt(IF result.path = "scan_response" THEN TrimSpace(parsedText)
                      ELSE frag.text)
     /\ parsedText = <<"-", "2">> => result.raw = 2 /\ result.score = 2
     /\ parsedText = <<"a", " ", "1", "2", "0", "1">> =>
          result.raw = 120 /\ result.score = 100

C30_FourDigitRun ==
  /\ ParsedScore
  /\ parsedText = <<"a", " ", "1", "2", "0", "1">>
  /\ result.ok
  /\ result.path = "scan_response"
  /\ result.raw = 120
  /\ result.score = 100


====
